---- MODULE Spec2Model ----
(***************************************************************************)
(* Model of lambda_function.py: one invocation of lambda_handler, which    *)
(* fetches a gzipped CloudTrail log from S3 (format_data), scans it for    *)
(* the first 'RunInstances' record (get_events) and posts a summary to a   *)
(* Slack webhook (update_slack).                                           *)
(*                                                                         *)
(* Python strings that the code splits, joins or formats are sequences of  *)
(* one-character strings, so that split('/'), '\n'.join and the f-string   *)
(* are computed character by character.  Event names are only compared     *)
(* with ==, and are plain strings.                                         *)
(***************************************************************************)
EXTENDS Integers, Sequences, FiniteSets, TLC

VARIABLES
    store,        \* what S3 holds for the event's bucket/key (the input)
    pc,           \* position of lambda_handler
    requested,    \* the get_object calls made so far
    bytestream,   \* the object read at line 29
    json_data,    \* the document returned by format_data
    event_vals,   \* the tuple returned by get_events
    posts,        \* the webhook POSTs attempted so far (their json bodies)
    response,     \* what the webhook answered to the POST
    status,       \* the value returned by update_slack
    logs,         \* the logger.info lines
    fault         \* the exception that ended the invocation, if any

vars == <<store, pc, requested, bytestream, json_data, event_vals, posts,
          response, status, logs, fault>>

----------------------------------------------------------------------------
(* Bounds of the input space *)

MaxRecords == 2
MaxSegs == 4
MaxItems == 2

----------------------------------------------------------------------------
(* Strings *)

SLASH == "/"
NL == "\n"

\* the index of the first occurrence of c in s, 0 when there is none
IndexOf(s, c) ==
    IF \E i \in 1..Len(s) : s[i] = c
    THEN CHOOSE i \in 1..Len(s) : s[i] = c /\ \A j \in 1..(i-1) : s[j] # c
    ELSE 0

\* str.split(sep) for a one-character separator
RECURSIVE split(_, _)
split(s, sep) ==
    LET i == IndexOf(s, sep) IN
    IF i = 0 THEN <<s>>
    ELSE <<SubSeq(s, 1, i-1)>> \o split(SubSeq(s, i+1, Len(s)), sep)

Last(s) == s[Len(s)]
Front(s) == SubSeq(s, 1, Len(s) - 1)

\* sep.join(list)
RECURSIVE join(_, _)
join(sep, list) ==
    IF list = <<>> THEN <<>>
    ELSE IF Len(list) = 1 THEN list[1]
    ELSE list[1] \o <<sep>> \o join(sep, Tail(list))

----------------------------------------------------------------------------
(* The input space: what the object store may hold for the event's key *)

\* characters of the segments of the sample ARNs: prefix, role, username, ...
Letters == <<"p", "R", "u", "x", "y", "z">>

SegName(k) == IF k <= Len(Letters) THEN <<Letters[k]>> ELSE [i \in 1..k |-> "s"]

\* the ARN with n segments: "p", "p/R", "p/R/u", "p/R/u/x", ...
RECURSIVE ArnOf(_)
ArnOf(n) == IF n = 1 THEN SegName(1) ELSE ArnOf(n-1) \o <<SLASH>> \o SegName(n)

\* "arn/Ad/al": a well-formed ARN with longer segments
LongArn == <<"a", "r", "n", SLASH, "A", "d", SLASH, "a", "l">>

ARNs == {ArnOf(n) : n \in 1..MaxSegs} \cup {LongArn}

IdPool == {<<"i", "-", "1">>, <<"i", "-", "2">>}

Items == [instanceId : IdPool]

SeqsUpTo(S, n) == UNION {[1..k -> S] : k \in 0..n}

ItemLists == SeqsUpTo(Items, MaxItems)

\* responseElements is null in the CloudTrail record of a failed call
NullResponse == [isNull |-> TRUE, items |-> <<>>]

Responses == [isNull : {FALSE}, items : ItemLists] \cup {NullResponse}

TARGET == "RunInstances"

\* records the scan stops at: every identity with one response, the two
\* well-formed identities with every response, and a record wrong in both
MatchingRecords ==
    [eventName : {TARGET}, arn : ARNs,
     responseElements : {[isNull |-> FALSE,
                          items |-> <<[instanceId |-> <<"i", "-", "1">>]>>]}]
      \cup [eventName : {TARGET}, arn : {ArnOf(3), LongArn},
            responseElements : Responses]
      \cup {[eventName |-> TARGET, arn |-> ArnOf(2),
             responseElements |-> NullResponse]}

\* records the scan steps over: another event, and the target in another case
OtherRecords ==
    { [eventName |-> "StopInstances", arn |-> ArnOf(3),
       responseElements |-> NullResponse],
      [eventName |-> "runinstances", arn |-> LongArn,
       responseElements |-> [isNull |-> FALSE,
                             items |-> <<[instanceId |-> <<"i", "-", "2">>]>>]] }

AuditRecords == MatchingRecords \cup OtherRecords

EventNames == {r.eventName : r \in AuditRecords}

\* a parsed JSON document: an object with a Records list ("log"), an object
\* without the Records key ("object"), or a JSON value that is no object
NoDoc == [kind |-> "none", Records |-> <<>>]

Docs == [kind : {"log"}, Records : SeqsUpTo(AuditRecords, MaxRecords)]
          \cup [kind : {"object", "array"}, Records : {<<>>}]

\* the body of the stored object: its gzip framing, its encoding, its syntax
NoBytes == [read |-> "none", gzip |-> FALSE, utf8 |-> FALSE, json |-> FALSE,
            doc |-> NoDoc]

BadBodies ==
    { [read |-> "IOError", gzip |-> FALSE, utf8 |-> FALSE, json |-> FALSE, doc |-> NoDoc],
      [read |-> "ok", gzip |-> FALSE, utf8 |-> FALSE, json |-> FALSE, doc |-> NoDoc],
      [read |-> "ok", gzip |-> TRUE, utf8 |-> FALSE, json |-> FALSE, doc |-> NoDoc],
      [read |-> "ok", gzip |-> TRUE, utf8 |-> TRUE, json |-> FALSE, doc |-> NoDoc] }

GoodBodies == [read : {"ok"}, gzip : {TRUE}, utf8 : {TRUE}, json : {TRUE}, doc : Docs]

\* get_object either raises (no such key, access denied) or returns a Body
Stores == [get : {"NoSuchKey", "AccessDenied"}, body : {NoBytes}]
            \cup [get : {"ok"}, body : BadBodies \cup GoodBodies]

\* the trigger: only Records[0] is read
event == <<[bucket |-> "trail-bucket", key |-> "log.json.gz"]>>

NoFault == [exc |-> "None", at |-> "None"]
Raise(e, where) == [exc |-> e, at |-> where]

NoVals == <<>>

----------------------------------------------------------------------------
(* get_events *)

Returned(v, lines) == [ret |-> v, exc |-> "None", log |-> lines]
Raised(e, lines) == [ret |-> NoVals, exc |-> e, log |-> lines]

LogLine(msg, args) == [msg |-> msg, args |-> args]

NOT_PRESENT == <<0, "Event not present.">>

\* instance_names.insert(0, ...) in place of append
InstanceNamesPrepended(instances) ==
    [k \in 1..Len(instances) |-> instances[Len(instances) + 1 - k].instanceId]

\* lines 58-61: instance_names.append(item['instanceId']) for each item
InstanceNames(instances) ==
    [k \in 1..Len(instances) |-> instances[k].instanceId]

\* the tuple built as (1, role, username, ...)
ExtractRecordSwapped(record) ==
    LET found == <<LogLine("RUNINSTANCES event found.", <<>>)>>
        parts == split(record.arn, SLASH)
    IN  IF Len(parts) # 3 THEN Raised("ValueError", found)
        ELSE IF record.responseElements.isNull THEN Raised("TypeError", found)
        ELSE Returned(<<1, parts[2], parts[3],
                        InstanceNames(record.responseElements.items)>>, found)

\* the last two segments taken, 'unknown' where there are fewer
ExtractRecordLenient(record) ==
    LET found == <<LogLine("RUNINSTANCES event found.", <<>>)>>
        parts == split(record.arn, SLASH)
        n     == Len(parts)
        unknown == <<"?">>
    IN  IF record.responseElements.isNull THEN Raised("TypeError", found)
        ELSE Returned(<<1, parts[n], IF n >= 2 THEN parts[n-1] ELSE unknown,
                        InstanceNames(record.responseElements.items)>>, found)

\* lines 51-62: the body of the if, run on the record the scan stopped at
ExtractRecord(record) ==
    LET found == <<LogLine("RUNINSTANCES event found.", <<>>)>>
        parts == split(record.arn, SLASH)
    IN  IF Len(parts) # 3
        THEN Raised("ValueError", found)     \* arn, role, username = ...
        ELSE
          LET role     == parts[2]
              username == parts[3]
              lines    == Append(found, LogLine("Assumed Role, Username",
                                                <<role, username>>))
          IN  IF record.responseElements.isNull
              THEN Raised("TypeError", lines)
              ELSE
                LET instances == record.responseElements.items
                    instance_names == InstanceNames(instances)
                IN  Returned(<<1, username, role, instance_names>>, lines)

\* lines 49-63: the for loop, which returns from inside the first match
RECURSIVE ScanRecords(_, _)
ScanRecords(records, event_type) ==
    IF records = <<>> THEN Returned(NOT_PRESENT, <<>>)
    ELSE IF Head(records).eventName = event_type
         THEN ExtractRecord(Head(records))
         ELSE ScanRecords(Tail(records), event_type)

\* the loop without the return inside it: the last match wins
RECURSIVE ScanRecordsLast(_, _)
ScanRecordsLast(records, event_type) ==
    IF records = <<>> THEN Returned(NOT_PRESENT, <<>>)
    ELSE IF Last(records).eventName = event_type
         THEN ExtractRecord(Last(records))
         ELSE ScanRecordsLast(Front(records), event_type)

get_events_last(doc, event_type) ==
    IF doc.kind = "log" THEN ScanRecordsLast(doc.Records, event_type)
    ELSE IF doc.kind = "object" THEN Raised("KeyError", <<>>)
    ELSE Raised("TypeError", <<>>)

\* Records[0] looked at before the loop: an empty list raises
get_events_peek(doc, event_type) ==
    IF doc.kind = "log"
    THEN IF doc.Records = <<>> THEN Raised("IndexError", <<>>)
         ELSE ScanRecords(doc.Records, event_type)
    ELSE IF doc.kind = "object" THEN Raised("KeyError", <<>>)
    ELSE Raised("TypeError", <<>>)

\* json_data.get('Records', []): a missing key read as an empty list
get_events_default(doc, event_type) ==
    IF doc.kind = "log" THEN ScanRecords(doc.Records, event_type)
    ELSE IF doc.kind = "object" THEN Returned(NOT_PRESENT, <<>>)
    ELSE Raised("TypeError", <<>>)

get_events(doc, event_type) ==
    IF doc.kind = "log" THEN ScanRecords(doc.Records, event_type)
    ELSE IF doc.kind = "object" THEN Raised("KeyError", <<>>)
    ELSE Raised("TypeError", <<>>)

----------------------------------------------------------------------------
(* update_slack *)

SLACK_URL == "https://hooks.slack.example/services/T/B/X"

USER_LABEL == <<"U", "s", "e", "r", ":", " ">>
ROLE_LABEL == <<"R", "o", "l", "e", ":", " ">>

\* lines 77-89: the json body of the POST
SlackData(username, role, instances) ==
    LET instance_str == join(NL, instances) IN
    [ text |-> "RunInstances event detected.",
      attachments |-> <<
        [ author_name |-> USER_LABEL \o username \o <<NL>> \o ROLE_LABEL \o role,
          title |-> "Instance Names",
          text |-> instance_str,
          color |-> "#FF0000" ] >> ]

SlackPost(username, role, instances) ==
    [ url |-> SLACK_URL,
      headers |-> [content_type |-> "application/json"],
      json |-> SlackData(username, role, instances) ]

NoResponse == [received |-> FALSE, status_code |-> 0]

\* what requests.post may do: answer with a status code, or not connect
StatusCodes == {200, 404, 500}

NoReturn == [returned |-> FALSE, value |-> 0]

----------------------------------------------------------------------------
(* lambda_handler *)

Init ==
    /\ store \in Stores
    /\ pc = "Start"
    /\ requested = <<>>
    /\ bytestream = NoBytes
    /\ json_data = NoDoc
    /\ event_vals = NoVals
    /\ posts = <<>>
    /\ response = NoResponse
    /\ status = NoReturn
    /\ logs = <<>>
    /\ fault = NoFault

Fail(e, where) ==
    /\ pc' = "Failed"
    /\ fault' = Raise(e, where)

\* format_data, lines 25-29: get_object and Body.read
Fetch ==
    /\ pc = "Start"
    /\ requested' = Append(requested,
                           [Bucket |-> event[1].bucket, Key |-> event[1].key])
    /\ IF store.get # "ok"
       THEN Fail("ClientError", "format_data") /\ UNCHANGED bytestream
       ELSE IF store.body.read # "ok"
       THEN Fail("IOError", "format_data") /\ UNCHANGED bytestream
       ELSE /\ bytestream' = store.body
            /\ pc' = "Fetched"
            /\ UNCHANGED fault
    /\ UNCHANGED <<store, json_data, event_vals, posts, response, status, logs>>

\* format_data, lines 31-35: gunzip, decode('utf-8'), json.loads
Decode ==
    /\ pc = "Fetched"
    /\ IF ~bytestream.gzip
       THEN Fail("OSError", "format_data") /\ UNCHANGED json_data
       ELSE IF ~bytestream.utf8
       THEN Fail("UnicodeDecodeError", "format_data") /\ UNCHANGED json_data
       ELSE IF ~bytestream.json
       THEN Fail("JSONDecodeError", "format_data") /\ UNCHANGED json_data
       ELSE /\ json_data' = bytestream.doc
            /\ pc' = "Decoded"
            /\ UNCHANGED fault
    /\ UNCHANGED <<store, requested, bytestream, event_vals, posts, response,
                   status, logs>>

\* get_events wrapped in try/except, a fault answered with a default tuple
ExtractSwallow ==
    /\ pc = "Decoded"
    /\ LET out == get_events(json_data, TARGET) IN
       /\ logs' = logs \o out.log
       /\ event_vals' = IF out.exc # "None"
                        THEN <<1, <<"?">>, <<"?">>, <<>>>>
                        ELSE out.ret
       /\ pc' = IF event_vals'[1] = 1 THEN "Matched" ELSE "Unmatched"
       /\ UNCHANGED fault
    /\ UNCHANGED <<store, requested, bytestream, json_data, posts, response, status>>

\* lines 103-104: get_events(json_data, 'RunInstances') and the test of its flag
Extract ==
    /\ pc = "Decoded"
    /\ LET out == get_events(json_data, TARGET) IN
       /\ logs' = logs \o out.log
       /\ IF out.exc # "None"
          THEN Fail(out.exc, "get_events") /\ UNCHANGED event_vals
          ELSE /\ event_vals' = out.ret
               /\ pc' = IF out.ret[1] = 1 THEN "Matched" ELSE "Unmatched"
               /\ UNCHANGED fault
    /\ UNCHANGED <<store, requested, bytestream, json_data, posts, response, status>>

\* raise_for_status() after the POST
NotifyRaiseForStatus ==
    /\ pc = "Matched"
    /\ posts' = Append(posts, SlackPost(event_vals[2], event_vals[3], event_vals[4]))
    /\ \/ \E code \in StatusCodes :
            /\ response' = [received |-> TRUE, status_code |-> code]
            /\ IF code >= 400
               THEN Fail("HTTPError", "update_slack") /\ UNCHANGED <<logs, status>>
               ELSE /\ logs' = Append(logs, LogLine("Slack POST returned HTTP code",
                                                    <<code>>))
                    /\ status' = [returned |-> TRUE, value |-> code]
                    /\ pc' = "Done"
                    /\ UNCHANGED fault
       \/ /\ Fail("ConnectionError", "update_slack")
          /\ UNCHANGED <<response, logs, status>>
    /\ UNCHANGED <<store, requested, bytestream, json_data, event_vals>>

\* one more attempt after a 5xx answer
NotifyRetry ==
    /\ pc = "Matched"
    /\ posts' = Append(posts, SlackPost(event_vals[2], event_vals[3], event_vals[4]))
    /\ \/ \E code \in StatusCodes :
            /\ response' = [received |-> TRUE, status_code |-> code]
            /\ logs' = Append(logs, LogLine("Slack POST returned HTTP code",
                                            <<code>>))
            /\ status' = [returned |-> TRUE, value |-> code]
            /\ pc' = IF code >= 500 /\ posts = <<>> THEN "Matched" ELSE "Done"
            /\ UNCHANGED fault
       \/ /\ Fail("ConnectionError", "update_slack")
          /\ UNCHANGED <<response, logs, status>>
    /\ UNCHANGED <<store, requested, bytestream, json_data, event_vals>>

\* lines 105-108: update_slack(username, iam_role, instance_names)
Notify ==
    /\ pc = "Matched"
    /\ LET username == event_vals[2]
           iam_role == event_vals[3]
           instance_names == event_vals[4]
       IN  posts' = Append(posts, SlackPost(username, iam_role, instance_names))
    /\ \/ \E code \in StatusCodes :
            /\ response' = [received |-> TRUE, status_code |-> code]
            /\ logs' = Append(logs, LogLine("Slack POST returned HTTP code",
                                            <<code>>))
            /\ status' = [returned |-> TRUE, value |-> code]
            /\ pc' = "Done"
            /\ UNCHANGED fault
       \/ /\ Fail("ConnectionError", "update_slack")
          /\ UNCHANGED <<response, logs, status>>
    /\ UNCHANGED <<store, requested, bytestream, json_data, event_vals>>

\* an else branch that reports the absence to the webhook
FinishNotify ==
    /\ pc = "Unmatched"
    /\ posts' = Append(posts, SlackPost(<<>>, <<>>, <<>>))
    /\ pc' = "Done"
    /\ UNCHANGED <<store, requested, bytestream, json_data, event_vals,
                   response, status, logs, fault>>

\* line 104 false: the handler returns without calling update_slack
Finish ==
    /\ pc = "Unmatched"
    /\ pc' = "Done"
    /\ UNCHANGED <<store, requested, bytestream, json_data, event_vals, posts,
                   response, status, logs, fault>>

Next == Fetch \/ Decode \/ Extract \/ Notify \/ Finish

Spec == Init /\ [][Next]_vars

----------------------------------------------------------------------------
(* Vocabulary of the properties, defined on the input and not through the  *)
(* operators above                                                         *)

Min(S) == CHOOSE x \in S : \A y \in S : x <= y
Max(S) == CHOOSE x \in S : \A y \in S : x >= y

MatchIdx(records, t) == {i \in 1..Len(records) : records[i].eventName = t}

HasMatch(doc, t) == doc.kind = "log" /\ MatchIdx(doc.Records, t) # {}

FirstMatch(doc, t) == doc.Records[Min(MatchIdx(doc.Records, t))]

SlashPos(s) == {i \in 1..Len(s) : s[i] = "/"}

SegCount(s) == Cardinality(SlashPos(s)) + 1

\* of a string with exactly two slashes
SecondSeg(s) == SubSeq(s, Min(SlashPos(s)) + 1, Max(SlashPos(s)) - 1)
ThirdSeg(s) == SubSeq(s, Max(SlashPos(s)) + 1, Len(s))

IdsOf(record) ==
    [k \in 1..Len(record.responseElements.items) |->
        record.responseElements.items[k].instanceId]

WellFormed(record) ==
    SegCount(record.arn) = 3 /\ ~record.responseElements.isNull

\* the targets get_events is tried with: every name in the logs and one in none
Targets == EventNames \cup {"TerminateInstances"}

FetchFaulty == store.get # "ok" \/ store.body.read # "ok"

DecodeFaulty ==
    /\ ~FetchFaulty
    /\ ~(store.body.gzip /\ store.body.utf8 /\ store.body.json)

ExtractFaulty ==
    /\ ~FetchFaulty
    /\ ~DecodeFaulty
    /\ \/ store.body.doc.kind # "log"
       \/ /\ HasMatch(store.body.doc, TARGET)
          /\ ~WellFormed(FirstMatch(store.body.doc, TARGET))

\* get_events has run (and the handler is at or past the test of its flag)
Extracted ==
    \/ pc \in {"Matched", "Unmatched", "Done"}
    \/ pc = "Failed" /\ fault.at \in {"get_events", "update_slack"}

----------------------------------------------------------------------------
(* C1: get_events returns the data of the first record, in Records order,  *)
(* whose eventName equals the target exactly; the records after it have no *)
(* influence: the outcome on the log is the outcome on the log cut right   *)
(* after the first match, a well-formed first match is returned as         *)
(* (1, username, role, instance ids) of that record, and it is what the    *)
(* handler holds in event_vals.                                            *)
C1_FirstMatchOnly ==
    /\ json_data.kind = "log" =>
         \A t \in Targets :
            HasMatch(json_data, t) =>
              LET records == json_data.Records
                  f       == Min(MatchIdx(records, t))
                  first   == records[f]
                  out     == get_events(json_data, t)
                  cut     == get_events([json_data EXCEPT
                                           !.Records = SubSeq(records, 1, f)], t)
              IN  /\ out = cut
                  /\ WellFormed(first) =>
                       /\ out.exc = "None"
                       /\ out.ret = <<1, ThirdSeg(first.arn), SecondSeg(first.arn),
                                      IdsOf(first)>>
                  /\ ~WellFormed(first) => out.exc # "None"
    /\ pc = "Matched" =>
         LET first == FirstMatch(json_data, TARGET) IN
         event_vals = <<1, ThirdSeg(first.arn), SecondSeg(first.arn), IdsOf(first)>>

\* two matching records with different identities, the first one extracted
C1_Witness ==
    /\ pc = "Matched"
    /\ Len(json_data.Records) = 2
    /\ MatchIdx(json_data.Records, TARGET) = {1, 2}
    /\ json_data.Records[1].arn # json_data.Records[2].arn
    /\ WellFormed(json_data.Records[2])
    /\ event_vals[2] = ThirdSeg(json_data.Records[1].arn)

(* C4: get_events returns (0, 'Event not present.') without a fault for an *)
(* empty Records list and for every log none of whose records has the      *)
(* target as eventName.                                                     *)
C4_NotFoundIsNormal ==
    /\ json_data.kind = "log" =>
         \A t \in Targets :
            MatchIdx(json_data.Records, t) = {} =>
               LET out == get_events(json_data, t) IN
               /\ out.exc = "None"
               /\ out.ret = <<0, "Event not present.">>
    /\ (Extracted /\ json_data.kind = "log"
          /\ \A i \in 1..Len(json_data.Records) :
                json_data.Records[i].eventName # TARGET) =>
         /\ event_vals = <<0, "Event not present.">>
         /\ fault = NoFault

\* the scan of an empty Records list has ended in the not-found tuple
C4_Witness ==
    /\ pc = "Unmatched"
    /\ json_data.kind = "log"
    /\ json_data.Records = <<>>
    /\ event_vals = <<0, "Event not present.">>

(* C5: when the arn of the first matching record does not split on '/'     *)
(* into exactly three segments, extraction faults (ValueError from the     *)
(* unpacking): no result tuple is produced, so no role or username is made *)
(* up, and no POST is made in that invocation.                             *)
C5_MalformedArnFaults ==
    /\ \A record \in MatchingRecords :
          SegCount(record.arn) # 3 =>
             /\ ExtractRecord(record).exc = "ValueError"
             /\ ExtractRecord(record).ret = <<>>
    /\ (HasMatch(json_data, TARGET)
          /\ SegCount(FirstMatch(json_data, TARGET).arn) # 3) =>
         /\ pc \in {"Decoded", "Failed"}
         /\ pc = "Failed" => fault = Raise("ValueError", "get_events")
         /\ event_vals = <<>>
         /\ posts = <<>>
         /\ ~status.returned

\* an arn of four segments in the first match has ended the invocation
C5_Witness ==
    /\ pc = "Failed"
    /\ fault.exc = "ValueError"
    /\ HasMatch(json_data, TARGET)
    /\ SegCount(FirstMatch(json_data, TARGET).arn) = 4

(* C10: for a matched record whose arn is prefix/role/username, the role   *)
(* extracted is the second segment and the username the third, and the    *)
(* author_name of the POSTed payload is "User: <username>", a newline,    *)
(* "Role: <role>", with the same two values.                              *)
C10_RoleAndUsername ==
    /\ (Len(event_vals) = 4 /\ event_vals[1] = 1) =>
         LET arn == FirstMatch(json_data, TARGET).arn IN
         /\ SegCount(arn) = 3
         /\ event_vals[3] = SecondSeg(arn)
         /\ event_vals[2] = ThirdSeg(arn)
    /\ \A k \in 1..Len(posts) :
         LET arn == FirstMatch(json_data, TARGET).arn IN
         posts[k].json.attachments[1].author_name =
            <<"U", "s", "e", "r", ":", " ">> \o ThirdSeg(arn) \o <<"\n">>
               \o <<"R", "o", "l", "e", ":", " ">> \o SecondSeg(arn)

\* the record of "arn/Ad/al" has been posted
C10_Witness ==
    /\ Len(posts) = 1
    /\ FirstMatch(json_data, TARGET).arn = LongArn
    /\ event_vals[2] = <<"a", "l">>
    /\ event_vals[3] = <<"A", "d">>

----------------------------------------------------------------------------
(* C2: a fault of the fetch, of the decode or of the extraction ends the   *)
(* invocation there, with that fault and without a POST; a POST is made    *)
(* only when the object was fetched and decoded and the extraction         *)
(* returned a match.                                                       *)
C2_NoPostAfterFault ==
    /\ FetchFaulty =>
         /\ pc \in {"Start", "Failed"}
         /\ pc = "Failed" =>
              fault = Raise(IF store.get # "ok" THEN "ClientError" ELSE "IOError",
                            "format_data")
    /\ DecodeFaulty =>
         /\ pc \in {"Start", "Fetched", "Failed"}
         /\ pc = "Failed" =>
              /\ fault.at = "format_data"
              /\ fault.exc \in {"OSError", "UnicodeDecodeError", "JSONDecodeError"}
    /\ ExtractFaulty =>
         /\ pc \in {"Start", "Fetched", "Decoded", "Failed"}
         /\ pc = "Failed" =>
              /\ fault.at = "get_events"
              /\ fault.exc \in {"KeyError", "TypeError", "ValueError"}
    /\ (FetchFaulty \/ DecodeFaulty \/ ExtractFaulty) => posts = <<>>
    /\ (pc = "Failed" /\ fault.at \in {"format_data", "get_events"}) => posts = <<>>
    /\ posts # <<>> =>
         /\ bytestream = store.body
         /\ json_data = store.body.doc
         /\ HasMatch(json_data, TARGET)
         /\ Len(event_vals) = 4
         /\ event_vals[1] = 1

\* a body that is no JSON has ended the invocation in the decoder
C2_Witness ==
    /\ pc = "Failed"
    /\ fault = Raise("JSONDecodeError", "format_data")
    /\ Len(requested) = 1
    /\ posts = <<>>

\* the decoded document is a log without a RunInstances record
NoMatchLog == json_data.kind = "log" /\ MatchIdx(json_data.Records, TARGET) = {}

(* C3: when the decoded log has no record whose eventName is               *)
(* 'RunInstances', the handler goes from Decoded to Unmatched and from     *)
(* Unmatched straight to Done: no POST is made and no fault is raised.     *)
C3_UnmatchedToDone ==
    /\ [](NoMatchLog =>
            /\ pc \in {"Decoded", "Unmatched", "Done"}
            /\ posts = <<>>
            /\ ~response.received
            /\ ~status.returned
            /\ fault = NoFault)
    /\ [][/\ (NoMatchLog /\ pc = "Decoded") => pc' = "Unmatched"
          /\ pc = "Unmatched" => (pc' = "Done" /\ posts' = <<>> /\ fault' = NoFault)
         ]_vars

\* a log of two records, neither a RunInstances, has been handled
C3_Witness ==
    /\ pc = "Done"
    /\ NoMatchLog
    /\ Len(json_data.Records) = 2
    /\ posts = <<>>
    /\ fault = NoFault

(* C6: the attachment text of the POSTed payload is the instanceId values  *)
(* of the matched record's responseElements.instancesSet.items, in list    *)
(* order, duplicates kept, separated by newlines: cutting the text at its  *)
(* newlines gives the list back.                                           *)
C6_InstanceOrderKept ==
    \A k \in 1..Len(posts) :
       LET ids  == IdsOf(FirstMatch(json_data, TARGET))
           text == posts[k].json.attachments[1].text
       IN  /\ ids = <<>> => text = <<>>
           /\ ids # <<>> => split(text, "\n") = ids
           /\ event_vals[4] = ids

\* a record listing i-2 before i-1 has been posted
C6_Witness ==
    /\ Len(posts) = 1
    /\ IdsOf(FirstMatch(json_data, TARGET)) = <<<<"i", "-", "2">>, <<"i", "-", "1">>>>
    /\ posts[1].json.attachments[1].text = <<"i", "-", "2", "\n", "i", "-", "1">>

(* C7: whatever status code the webhook answers, update_slack returns that *)
(* code and raises nothing: the invocation ends in Done without a fault,   *)
(* after one POST, the code being logged.                                  *)
C7_StatusReturnedNotRaised ==
    response.received =>
       /\ pc = "Done"
       /\ fault = NoFault
       /\ status = [returned |-> TRUE, value |-> response.status_code]
       /\ Len(posts) = 1
       /\ Last(logs) = LogLine("Slack POST returned HTTP code",
                               <<response.status_code>>)

\* the webhook has answered 500
C7_Witness ==
    /\ response.received
    /\ response.status_code = 500
    /\ status.value = 500
    /\ pc = "Done"

(* C8, as stated: the decoder fails when the document has no top-level     *)
(* Records key, so the handler is never at Decoded with such a document.   *)
C8_DecoderChecksRecords ==
    (~FetchFaulty /\ ~DecodeFaulty /\ store.body.doc.kind # "log") =>
       /\ pc # "Decoded"
       /\ pc = "Failed" => fault.at = "format_data"

(* C8, amended: format_data returns a document without a top-level Records *)
(* key as it is; the fault is raised by get_events at json_data['Records'] *)
(* (KeyError for an object, TypeError for a value that is no object), the  *)
(* invocation fails there and no POST is made.                             *)
C8_MissingRecordsFaultsInExtractor ==
    (~FetchFaulty /\ ~DecodeFaulty /\ store.body.doc.kind # "log") =>
       /\ pc \in {"Start", "Fetched", "Decoded", "Failed"}
       /\ pc \in {"Decoded", "Failed"} => json_data = store.body.doc
       /\ pc = "Failed" =>
            fault = Raise(IF json_data.kind = "object" THEN "KeyError" ELSE "TypeError",
                          "get_events")
       /\ event_vals = <<>>
       /\ posts = <<>>

\* an object without Records was decoded and has faulted in get_events
C8_Witness ==
    /\ pc = "Failed"
    /\ json_data.kind = "object"
    /\ fault = Raise("KeyError", "get_events")

\* the steps of lambda_handler from one position to the next
Edges ==
    { <<"Start", "Fetched">>, <<"Fetched", "Decoded">>, <<"Decoded", "Matched">>,
      <<"Decoded", "Unmatched">>, <<"Matched", "Done">>, <<"Unmatched", "Done">>,
      <<"Start", "Failed">>, <<"Fetched", "Failed">>, <<"Decoded", "Failed">>,
      <<"Matched", "Failed">> }

(* C9: the handler goes through Start, Fetched, Decoded, Matched or        *)
(* Unmatched, Done, in that order (or fails on the way), never back and    *)
(* never twice; at most one get_object and at most one POST are made.      *)
C9_LinearTraversal ==
    /\ [](Len(requested) <= 1 /\ Len(posts) <= 1)
    /\ [][/\ <<pc, pc'>> \in Edges
          /\ requested' # requested => pc = "Start"
          /\ posts' # posts => pc = "Matched"
         ]_vars

\* a log with two RunInstances records has been handled with one POST
C9_Witness ==
    /\ pc = "Done"
    /\ Cardinality(MatchIdx(json_data.Records, TARGET)) = 2
    /\ Len(requested) = 1
    /\ Len(posts) = 1

====
